---- MODULE Spec2Model ----
(***************************************************************************)
(* Bangla-Kobita: the audio pipeline.                                      *)
(*                                                                         *)
(*   - components/AudioPlayer (src/unnamed/part_000): playback of a        *)
(*     decoded buffer through the Web Audio API, the requestAnimationFrame *)
(*     analysis loop and the intensity observer;                           *)
(*   - services/geminiService (src/unnamed/part_001): decodeAudioData, the *)
(*     PCM decoder, and generateRevolutionarySpeech;                       *)
(*   - App (src/services/geminiService.ts, lines 487-857, and its earlier  *)
(*     revision, lines 117-486): handleGenerateAndPlay, handleDownload,    *)
(*     handleTextGeneration, handleIntensityChange and the MP3 encoder     *)
(*     audioBufferToMp3.                                                   *)
(*                                                                         *)
(* Spec         the App mounting AudioPlayer instances, with the browser's  *)
(*              events (animation frames, ended events, resume() promises). *)
(* SpecAnalyser the intensity reduction of one frame, as a function of the  *)
(*              spectrum.                                                   *)
(* SpecDecode   decodeAudioData, as a function of the payload.              *)
(* SpecGenerate the Recite button: the speech request, its decoding, and    *)
(*              the buffer or the error the App ends with.                  *)
(* SpecEncode   audioBufferToMp3, as a function of the buffer and of what   *)
(*              the encoder returns.                                        *)
(* SpecEncodeAny  the same on objects with the AudioBuffer interface that   *)
(*              no browser builds (no channel, channels of unequal length). *)
(* SpecApp      the App's buttons: Recite, Download MP3, the poem request,  *)
(*              Edit Text and the key selector, with their settlements.     *)
(* SpecVisual   handleIntensityChange, as a function of the intensities it  *)
(*              is called with.                                             *)
(***************************************************************************)
EXTENDS Integers, Sequences, FiniteSets, TLC

(***************************************************************************)
(* Bounds of the model.                                                    *)
(***************************************************************************)
\* AudioPlayer instances the App mounts (one per decoded buffer).
MaxMounts == 2
\* Buffer sources created over a run (one per playback that gets to start).
MaxSources == 2
\* Highest requestAnimationFrame id a frame callback may run with.
MaxRaf == 4
\* Identities of the App's handleIntensityChange (a new one per App render).
MaxObservers == 2
\* Longest payload, in bytes, handed to decodeAudioData.
MaxBytes == 4
\* Longest payload made of whole int16 values, in int16 values.
MaxWords == 5
\* Longest base64 string, in characters, a Gemini response carries.
MaxChars == 4
\* Whole blocks of sampleBlockSize samples in the longest buffer handed to
\* audioBufferToMp3 (the longest buffer has one sample more).
MaxBlocks == 2
\* handleDownload invocations that may be in flight at once.
MaxDownloads == 2
\* Calls of handleIntensityChange in a run.
MaxEmissions == 3

(***************************************************************************)
(* Program constants.                                                      *)
(***************************************************************************)
fftSize == 256
ByteMax == 255
Int16Scale == 32768
sampleBlockSize == 1152
x8000 == 32768
x7FFF == 32767

\* The null of a useState<... | null>.
Null == "null"

VARIABLES
    \* ---- App (src/services/geminiService.ts, second App) ----
    audioBuffer,            \* useState audioBuffer: 0 = null, i = the i-th decoded buffer
    onIntensityChange,      \* identity of the handleIntensityChange of the last App render
    \* ---- AudioPlayer, one entry per instance (instance i renders buffer i) ----
    nInst,                  \* instances mounted so far
    isPlaying,              \* useState isPlaying
    audioContextRef,        \* "null", or the state of the AudioContext it holds
    sourceRef,              \* 0 = null, or a source id
    analyserRef,            \* 0 = null, or the id of the source the analyser was made for
    animationRef,           \* 0 = null, or a requestAnimationFrame id
    canvasRef,              \* TRUE while the canvas is attached (the instance is mounted)
    onIntensityChangeRef,   \* 0 = undefined, or an observer identity
    awaiting,               \* playAudio calls suspended at `await resume()`
    \* ---- browser ----
    microtasks,             \* continuations of resolved resume() promises, in order
    sources,                \* the AudioBufferSourceNodes created so far
    rafPending,             \* scheduled animation-frame callbacks
    rafNext,                \* the id the next requestAnimationFrame returns
    onPlayCompleteCalls,    \* per source: the invocations of the onPlayComplete prop for it
    \* ---- what the observers received during the last step ----
    emitted,
    \* ---- one frame of the analysis loop ----
    dataArray,              \* the spectrum getByteFrequencyData wrote
    normalizedIntensity,    \* the value the frame computed from it
    \* ---- decodeAudioData ----
    data,                   \* the payload (bytes)
    numChannels,
    decoded,                \* the promise's outcome
    \* ---- App: speech generation (handleGenerateAndPlay) ----
    error,                  \* useState error: Null or a message
    isLoadingAudio,         \* useState isLoadingAudio
    hasKey,                 \* useState hasKey
    speech,                 \* the last call of generateRevolutionarySpeech
    speechRequests,         \* calls of generateRevolutionarySpeech that have not settled
    \* ---- App: audioBufferToMp3 ----
    buffer,                 \* the AudioBuffer handed to audioBufferToMp3
    revision,               \* which of the two App revisions of the source runs
    lame,                   \* whether window.lamejs is loaded
    encoded,                \* the promise's outcome
    \* ---- App: handleDownload, handleTextGeneration, handleIntensityChange ----
    isDownloading,          \* useState isDownloading
    downloads,              \* the handleDownload invocations that have not run to their end
    isGeneratingText,       \* useState isGeneratingText
    poem,                   \* the last call of generatePoemText
    visual                  \* the styles and the ref that handleIntensityChange writes

playerVars == <<audioBuffer, onIntensityChange, nInst, isPlaying, audioContextRef,
                sourceRef, analyserRef, animationRef, canvasRef, onIntensityChangeRef,
                awaiting, microtasks, sources, rafPending, rafNext,
                onPlayCompleteCalls, emitted>>
analyserVars == <<dataArray, normalizedIntensity>>
decodeVars == <<data, numChannels, decoded>>
appVars == <<error, isLoadingAudio, hasKey, speech, speechRequests>>
encoderVars == <<buffer, revision, lame, encoded>>
uiVars == <<isDownloading, downloads, isGeneratingText, poem, visual>>
vars == <<playerVars, analyserVars, decodeVars, appVars, encoderVars, uiVars>>

Inst == 1..MaxMounts
Observers == 1..MaxObservers

(***************************************************************************)
(* Rationals, as <<numerator, denominator>> with a positive denominator.   *)
(***************************************************************************)
RatEq(a, b) == a[1] * b[2] = b[1] * a[2]
RatLeq(a, b) == a[1] * b[2] <= b[1] * a[2]
RatLt(a, b) == a[1] * b[2] < b[1] * a[2]
RatDiv(a, n) == <<a[1], a[2] * n>>
RatMin(a, b) == IF RatLeq(a, b) THEN a ELSE b
Zero == <<0, 1>>
One == <<1, 1>>

RECURSIVE Gcd(_, _)
Gcd(a, b) == IF b = 0 THEN a ELSE Gcd(b, a % b)

\* a in lowest terms
Norm(a) ==
    LET g == Gcd(IF a[1] < 0 THEN -a[1] ELSE a[1], a[2])
    IN  <<a[1] \div g, a[2] \div g>>

\* sums over the least common denominator
RatAdd(a, b) ==
    LET g == Gcd(a[2], b[2])
    IN  Norm(<<a[1] * (b[2] \div g) + b[1] * (a[2] \div g), (a[2] \div g) * b[2]>>)
RatSub(a, b) == RatAdd(a, <<-b[1], b[2]>>)
RatTimes(a, b) == Norm(<<a[1] * b[1], a[2] * b[2]>>)

\* the square root of a rational in lowest terms whose numerator and denominator are
\* squares
RatSqrt(a) ==
    <<CHOOSE k \in 0..a[1] : k * k = a[1], CHOOSE k \in 1..a[2] : k * k = a[2]>>

(***************************************************************************)
(* The intensity of one frame (drawVisualizer.draw, lines 60-68).          *)
(* A spectrum is a function 0..bufferLength-1 -> 0..ByteMax.  The state    *)
(* holds a spectrum by its description <<lo, hi, k>>: lo in the bins below *)
(* k, hi in the bins from k on.                                            *)
(***************************************************************************)
bufferLength == fftSize \div 2

\* relevantBins, were the loop to run over every bin
relevantBinsAll == bufferLength

\* Math.floor(bufferLength * 0.7)
relevantBins == (bufferLength * 7) \div 10

RECURSIVE SumRange(_, _, _)
\* d[a] + ... + d[b], summed by halves
SumRange(d, a, b) ==
    IF a > b THEN 0
    ELSE IF a = b THEN d[a]
    ELSE LET m == (a + b) \div 2 IN SumRange(d, a, m) + SumRange(d, m + 1, b)

\* for (let i = 0; i < n; i++) sum += d[i]
SumBins(d, n) == SumRange(d, 0, n - 1)

\* NormalizedIntensity, were the average divided by 256
NormalizedIntensityBy256(d) ==
    LET sum == SumBins(d, relevantBins)
        average == RatDiv(<<sum, 1>>, relevantBins)
    IN  RatMin(One, RatDiv(average, ByteMax + 1))

NormalizedIntensity(d) ==
    LET sum == SumBins(d, relevantBins)
        average == RatDiv(<<sum, 1>>, relevantBins)
    IN  RatMin(One, RatDiv(average, ByteMax))

\* the contents of the Uint8Array described by p
SpectrumOf(p) == [j \in 0..(bufferLength - 1) |-> IF j < p[3] THEN p[1] ELSE p[2]]
Silence == <<0, 0, 0>>
\* the spectra a frame of Spec may read
FrameSpectra == {Silence, <<ByteMax, 0, relevantBins>>}
\* the spectra a frame of SpecAnalyser may read
Magnitudes == {0, 1, 100, ByteMax - 1, ByteMax}
Splits == {0, 1, bufferLength \div 2, relevantBins - 1, relevantBins, relevantBins + 1,
           bufferLength - 1}
Spectra == Magnitudes \X Magnitudes \X Splits

(***************************************************************************)
(* decodeAudioData (src/unnamed/part_001, lines 22-39).                    *)
(* A payload is a sequence of bytes; a sample is the rational              *)
(* <<int16 value, 32768>>.                                                 *)
(***************************************************************************)
ByteVals == {0, 1, 127, 128, ByteMax}
Payloads == UNION {[1..n -> ByteVals] : n \in 0..MaxBytes}
Channels == {1, 2}
\* Longer payloads, made of whole little-endian int16 values: -32768, 32767 and 1.
Words == {<<0, 128>>, <<ByteMax, 127>>, <<1, 0>>}
WordPayloads ==
    UNION {{[k \in 1..(2 * n) |-> w[(k + 1) \div 2][2 - (k % 2)]] : w \in [1..n -> Words]} :
           n \in 0..MaxWords}

\* Int16Of, were the two bytes read in big-endian order
Int16OfBigEndian(lo, hi) ==
    LET u == hi + 256 * lo IN IF u >= 32768 THEN u - 65536 ELSE u

\* Element of an Int16Array over the bytes lo, hi (typed arrays of the browsers'
\* platforms are little-endian): two's complement of hi:lo.
Int16Of(lo, hi) ==
    LET u == lo + 256 * hi IN IF u >= 32768 THEN u - 65536 ELSE u

\* new Int16Array(data.buffer)
Int16Array(bytes) == [k \in 1..(Len(bytes) \div 2) |-> Int16Of(bytes[2 * k - 1], bytes[2 * k])]

\* decodeAudioData, were the payload read channel after channel (planar) instead of
\* frame after frame (interleaved)
decodeAudioDataPlanar(bytes, channels) ==
    IF Len(bytes) % 2 # 0
    THEN [status |-> "RangeError"]
    ELSE LET dataInt16 == Int16Array(bytes)
             length == Len(dataInt16) \div channels
         IN  IF length = 0
             THEN [status |-> "NotSupportedError"]
             ELSE [status |-> "ok",
                   numberOfChannels |-> channels,
                   length |-> length,
                   channelData |->
                       [c \in 0..(channels - 1) |->
                           [i \in 0..(length - 1) |->
                               RatDiv(<<dataInt16[c * length + i + 1], 1>>, Int16Scale)]]]

\* decodeAudioData, were a buffer of no frame created instead of an error thrown
decodeAudioDataNoFrame(bytes, channels) ==
    IF Len(bytes) % 2 # 0
    THEN [status |-> "RangeError"]
    ELSE LET dataInt16 == Int16Array(bytes)
             length == Len(dataInt16) \div channels
         IN  [status |-> "ok",
              numberOfChannels |-> channels,
              length |-> length,
              channelData |->
                  [c \in 0..(channels - 1) |->
                      [i \in 0..(length - 1) |->
                          RatDiv(<<dataInt16[i * channels + c + 1], 1>>, Int16Scale)]]]

decodeAudioData(bytes, channels) ==
    IF Len(bytes) % 2 # 0
    THEN \* an Int16Array over a buffer of odd byte length: RangeError
         [status |-> "RangeError"]
    ELSE LET dataInt16 == Int16Array(bytes)
             \* createBuffer takes the frame count as an unsigned long: the fraction of
             \* dataInt16.length / numChannels is dropped
             length == Len(dataInt16) \div channels
         IN  IF length = 0
             THEN \* createBuffer with no frame: NotSupportedError
                  [status |-> "NotSupportedError"]
             ELSE \* writes at i >= length fall outside the channel and are ignored
                  [status |-> "ok",
                   numberOfChannels |-> channels,
                   length |-> length,
                   channelData |->
                       [c \in 0..(channels - 1) |->
                           [i \in 0..(length - 1) |->
                               RatDiv(<<dataInt16[i * channels + c + 1], 1>>, Int16Scale)]]]

(***************************************************************************)
(* generateRevolutionarySpeech (src/unnamed/part_001, lines 85-132) and    *)
(* decode (lines 9-17).  A base64 string is a sequence of characters, a    *)
(* binary string the sequence of its character codes.                      *)
(***************************************************************************)
\* Three of the 64 digits, the padding character and a white space.
B64Digits == {"A", "g", "/"}
B64Chars == B64Digits \cup {"=", " "}
Base64Strings == UNION {[1..n -> B64Chars] : n \in 0..MaxChars}

\* the 6-bit value of a digit
Sextet(ch) == CASE ch = "A" -> 0 [] ch = "g" -> 32 [] ch = "/" -> 63

NotWhitespace(ch) == ch # " "

\* window.atob (forgiving-base64 decode): white space is removed, then up to two
\* padding characters of a string whose length is a multiple of 4; a remaining length
\* of 4n+1 or a character that is not a digit is an InvalidCharacterError; the digits
\* are read 6 bits at a time and the bits left over after the last whole byte dropped.
atob(base64) ==
    LET stripped == SelectSeq(base64, NotWhitespace)
        n == Len(stripped)
        pad == IF n > 0 /\ n % 4 = 0 /\ stripped[n] = "="
               THEN IF stripped[n - 1] = "=" THEN 2 ELSE 1
               ELSE 0
        digits == SubSeq(stripped, 1, n - pad)
        m == Len(digits)
        byte(j) == LET q == ((8 * (j - 1)) \div 6) + 1
                       r == (8 * (j - 1)) % 6
                       hi == Sextet(digits[q])
                       lo == Sextet(digits[q + 1])
                   IN  CASE r = 0 -> hi * 4 + (lo \div 16)
                         [] r = 2 -> (hi % 16) * 16 + (lo \div 4)
                         [] r = 4 -> (hi % 4) * 64 + lo
    IN  IF m % 4 = 1 \/ \E k \in 1..m : digits[k] \notin B64Digits
        THEN [status |-> "InvalidCharacterError", binaryString |-> <<>>]
        ELSE [status |-> "ok", binaryString |-> [j \in 1..((6 * m) \div 8) |-> byte(j)]]

\* decode: the bytes are the character codes of atob's binary string
decode(base64) ==
    LET a == atob(base64)
        len == Len(a.binaryString)
    IN  [status |-> a.status, bytes |-> [k \in 1..len |-> a.binaryString[k]]]

\* What generateContent settles with: a rejection with a message (empty: none), a
\* response without inline audio data, or a response carrying a base64 string.
Messages == {"Requested entity was not found.", "Failed to fetch", ""}
Replies ==
    {[kind |-> "rejected", message |-> msg, data |-> <<>>] : msg \in Messages}
    \cup {[kind |-> "blocked", message |-> "", data |-> <<>>]}
    \cup {[kind |-> "audio", message |-> "", data |-> str] : str \in Base64Strings}

Rejected(at, msg, bytes) ==
    [status |-> "rejected", stage |-> at, message |-> msg, audioBytes |-> bytes,
     buffer |-> [status |-> "none"]]

\* generateRevolutionarySpeech, were a failure of decodeAudioData not to reach the
\* caller
generateRevolutionarySpeechUnchecked(key, reply) ==
    IF ~key
    THEN Rejected("key", "API Key is missing. Please select an API key.", <<>>)
    ELSE IF reply.kind = "rejected"
    THEN Rejected("generateContent", reply.message, <<>>)
    ELSE IF reply.kind = "blocked" \/ reply.data = <<>>
    THEN Rejected("response",
                  "No audio data returned from Gemini. The request might have been blocked or failed.",
                  <<>>)
    ELSE LET audioBytes == decode(reply.data)
         IN  IF audioBytes.status # "ok"
             THEN Rejected("decode", audioBytes.status, <<>>)
             ELSE [status |-> "resolved", stage |-> "decodeAudioData",
                   message |-> "", audioBytes |-> audioBytes.bytes,
                   buffer |-> decodeAudioData(audioBytes.bytes, 1)]

\* generateRevolutionarySpeech with process.env.API_KEY set or not (key) and the
\* outcome of generateContent (reply).  An error thrown inside the try is logged and
\* thrown again (lines 128-131); the message of a DOMException or RangeError is
\* modelled by the error's name.
generateRevolutionarySpeech(key, reply) ==
    IF ~key
    THEN Rejected("key", "API Key is missing. Please select an API key.", <<>>)
    ELSE IF reply.kind = "rejected"
    THEN Rejected("generateContent", reply.message, <<>>)
    ELSE IF reply.kind = "blocked" \/ reply.data = <<>>
    THEN \* !base64Audio: undefined or the empty string
         Rejected("response",
                  "No audio data returned from Gemini. The request might have been blocked or failed.",
                  <<>>)
    ELSE LET audioBytes == decode(reply.data)
         IN  IF audioBytes.status # "ok"
             THEN Rejected("decode", audioBytes.status, <<>>)
             ELSE LET b == decodeAudioData(audioBytes.bytes, 1)
                  IN  IF b.status # "ok"
                      THEN Rejected("decodeAudioData", b.status, audioBytes.bytes)
                      ELSE [status |-> "resolved", stage |-> "decodeAudioData",
                            message |-> "", audioBytes |-> audioBytes.bytes,
                            buffer |-> b]

(***************************************************************************)
(* audioBufferToMp3 (src/services/geminiService.ts, lines 542-586, and the *)
(* earlier revision of the App, lines 150-189).  A Float32Array is a       *)
(* function on 0..length-1 to rationals, as decodeAudioData builds it; an  *)
(* Int16Array is a sequence of integers.  Samples are exact rationals:     *)
(* 999/1000 stands for the float nearest to 0.999, whose products with the *)
(* two scales truncate to the same integers.                               *)
(***************************************************************************)
RatMul(a, n) == <<a[1] * n, a[2]>>
RatMax(a, b) == IF RatLeq(a, b) THEN b ELSE a

\* ToInt16, were the number rounded to the nearest integer (halves away from zero)
ToInt16Rounding(x) ==
    LET t == IF x[1] >= 0 THEN (2 * x[1] + x[2]) \div (2 * x[2])
             ELSE -((2 * (-x[1]) + x[2]) \div (2 * x[2]))
        u == t % 65536
    IN  IF u >= 32768 THEN u - 65536 ELSE u

\* Storing the number x into an Int16Array: the fraction is dropped (toward zero) and
\* the integer reduced modulo 2^16 into -32768..32767.
ToInt16(x) ==
    LET t == IF x[1] >= 0 THEN x[1] \div x[2] ELSE -((-x[1]) \div x[2])
        u == t % 65536
    IN  IF u >= 32768 THEN u - 65536 ELSE u

\* ToInt16, were the stored number limited to the range instead of reduced
ToInt16Saturating(x) ==
    LET t == IF x[1] >= 0 THEN x[1] \div x[2] ELSE -((-x[1]) \div x[2])
    IN  IF t > 32767 THEN 32767 ELSE IF t < -32768 THEN -32768 ELSE t

length(array) == Cardinality(DOMAIN array)

\* s < 0 ? s * 0x8000 : s * 0x7FFF, were both signs scaled by 0x8000
ScaleSymmetric(sx) == RatMul(sx, x8000)

\* s < 0 ? s * 0x8000 : s * 0x7FFF
Scale(sx) == IF RatLt(sx, Zero) THEN RatMul(sx, x8000) ELSE RatMul(sx, x7FFF)

\* floatTo16BitPCM, were the scaled sample saturated when stored
floatTo16BitPCMSaturating(input) ==
    [k \in 1..length(input) |-> ToInt16Saturating(Scale(input[k - 1]))]

\* floatTo16BitPCM of the later revision (lines 558-565)
floatTo16BitPCM(input) ==
    [k \in 1..length(input) |-> ToInt16(Scale(input[k - 1]))]

\* floatTo16BitPCM of the earlier revision, were the clamped sample scaled by 0x8000
\* whatever its sign
floatTo16BitPCMEarlierSymmetric(input) ==
    [k \in 1..length(input) |->
        ToInt16(ScaleSymmetric(RatMax(<<-1, 1>>, RatMin(One, input[k - 1]))))]

\* floatTo16BitPCM of the earlier revision (lines 161-168):
\* s = Math.max(-1, Math.min(1, input[i]))
floatTo16BitPCMEarlier(input) ==
    [k \in 1..length(input) |->
        ToInt16(Scale(RatMax(<<-1, 1>>, RatMin(One, input[k - 1]))))]

\* A reference to a typed array, or null.
NullArray == [null |-> TRUE, samples |-> <<>>]
Array(a) == [null |-> FALSE, samples |-> a]

\* typedArray.subarray(begin, end)
subarray(a, begin, end) ==
    SubSeq(a, begin + 1, IF end < Len(a) THEN end ELSE Len(a))

\* samplesR, were it always taken from channel 0
samplesRFromLeft(buf, rev) ==
    IF buf.numberOfChannels > 1 \/ rev = "earlier"
    THEN Array(buf.channelData[0])
    ELSE NullArray

\* samplesR: channel 1 of a buffer of more than one channel; of a mono buffer, samplesL
\* in the earlier revision (line 158) and null in the later one (line 556)
samplesR(buf, rev) ==
    IF buf.numberOfChannels > 1
    THEN Array(buf.channelData[1])
    ELSE IF rev = "earlier" THEN Array(buf.channelData[0]) ELSE NullArray

\* The chunk the encoder returns from its call number k, of n bytes: the bytes are
\* opaque, and are tagged with the call they come from.
Chunk(k, n) == [j \in 1..n |-> k]
ChunkLengths == {0, 2}

\* if (mp3buf.length > 0) mp3Data.push(mp3buf), were the chunk pushed in any case
PushAlways(mp3Data, mp3buf) == Append(mp3Data, mp3buf)

\* if (mp3buf.length > 0) mp3Data.push(mp3buf)
Push(mp3Data, mp3buf) ==
    IF Len(mp3buf) > 0 THEN Append(mp3Data, mp3buf) ELSE mp3Data

\* The state of a run of audioBufferToMp3: the calls made on the encoder so far and
\* mp3Data.
NewRun == [calls |-> <<>>, mp3Data |-> <<>>]

RECURSIVE EncodeWholeBlocks(_, _, _, _, _)
\* EncodeBlocks, were the loop to stop before a block of fewer than sampleBlockSize
\* samples
EncodeWholeBlocks(E, left, right, i, rets) ==
    IF i + sampleBlockSize > Len(left)
    THEN E
    ELSE LET leftChunk == subarray(left, i, i + sampleBlockSize)
             rightChunk == IF right.null THEN NullArray
                           ELSE Array(subarray(right.samples, i, i + sampleBlockSize))
             k == Len(E.calls) + 1
             mp3buf == Chunk(k, rets[k])
         IN  EncodeWholeBlocks(
                 [calls |-> Append(E.calls, [op |-> "encodeBuffer", offset |-> i,
                                             left |-> leftChunk, right |-> rightChunk,
                                             returned |-> mp3buf]),
                  mp3Data |-> Push(E.mp3Data, mp3buf)],
                 left, right, i + sampleBlockSize, rets)

RECURSIVE EncodeBlocksInclusive(_, _, _, _, _)
\* EncodeBlocks, were the loop to run while i <= left.length
EncodeBlocksInclusive(E, left, right, i, rets) ==
    IF i > Len(left)
    THEN E
    ELSE LET leftChunk == subarray(left, i, i + sampleBlockSize)
             rightChunk == IF right.null THEN NullArray
                           ELSE Array(subarray(right.samples, i, i + sampleBlockSize))
             k == Len(E.calls) + 1
             mp3buf == Chunk(k, rets[k])
         IN  EncodeBlocksInclusive(
                 [calls |-> Append(E.calls, [op |-> "encodeBuffer", offset |-> i,
                                             left |-> leftChunk, right |-> rightChunk,
                                             returned |-> mp3buf]),
                  mp3Data |-> Push(E.mp3Data, mp3buf)],
                 left, right, i + sampleBlockSize, rets)

RECURSIVE EncodeBlocks(_, _, _, _, _)
\* The loop of lines 571-581 (earlier revision: 174-181) from the offset i on;
\* rets[k] is the length of the chunk the encoder returns from its call number k.
\* With right = null the call is encodeBuffer(leftChunk).
EncodeBlocks(E, left, right, i, rets) ==
    IF i >= Len(left)
    THEN E
    ELSE LET leftChunk == subarray(left, i, i + sampleBlockSize)
             rightChunk == IF right.null THEN NullArray
                           ELSE Array(subarray(right.samples, i, i + sampleBlockSize))
             k == Len(E.calls) + 1
             mp3buf == Chunk(k, rets[k])
         IN  EncodeBlocks(
                 [calls |-> Append(E.calls, [op |-> "encodeBuffer", offset |-> i,
                                             left |-> leftChunk, right |-> rightChunk,
                                             returned |-> mp3buf]),
                  mp3Data |-> Push(E.mp3Data, mp3buf)],
                 left, right, i + sampleBlockSize, rets)

RECURSIVE Concat(_)
\* new Blob(mp3Data): the bytes of the chunks, one after the other
Concat(chunks) == IF chunks = <<>> THEN <<>> ELSE Head(chunks) \o Concat(Tail(chunks))

\* audioBufferToMp3(buffer) in the revision rev of the App, with window.lamejs loaded
\* or not; the later revision throws when it is not (lines 549-551), the earlier one
\* imports the library.
audioBufferToMp3(buf, rev, loaded, rets) ==
    IF rev = "later" /\ ~loaded
    THEN [status |-> "rejected", message |-> "lamejs library not loaded properly.",
          left |-> <<>>, right |-> NullArray, calls |-> <<>>, mp3Data |-> <<>>,
          blob |-> <<>>]
    ELSE IF buf.numberOfChannels < 1
    THEN \* buffer.getChannelData(0) of a buffer without channels throws
         [status |-> "rejected", message |-> "IndexSizeError",
          left |-> <<>>, right |-> NullArray, calls |-> <<>>, mp3Data |-> <<>>,
          blob |-> <<>>]
    ELSE LET samplesL == buf.channelData[0]
             sR == samplesR(buf, rev)
             left == IF rev = "later" THEN floatTo16BitPCM(samplesL)
                     ELSE floatTo16BitPCMEarlier(samplesL)
             right == IF sR.null THEN NullArray
                      ELSE IF rev = "later" THEN Array(floatTo16BitPCM(sR.samples))
                      ELSE Array(floatTo16BitPCMEarlier(sR.samples))
             E == EncodeBlocks(NewRun, left, right, 0, rets)
             k == Len(E.calls) + 1
             mp3buf == Chunk(k, rets[k])
             mp3Data == Push(E.mp3Data, mp3buf)
         IN  [status |-> "resolved", message |-> "",
              left |-> left, right |-> right,
              calls |-> Append(E.calls, [op |-> "flush", offset |-> Len(left),
                                         left |-> <<>>, right |-> NullArray,
                                         returned |-> mp3buf]),
              mp3Data |-> mp3Data,
              blob |-> Concat(mp3Data)]

\* The buffers handed to audioBufferToMp3: a channel repeats a short pattern of
\* samples over its length.  The function is taken on any object with the interface
\* of an AudioBuffer; the browser itself builds no AudioBuffer of length 0, and
\* decodeAudioData none of two channels in this App.
Scenario == << <<1, 2>>, <<-1, 2>>, <<999, 1000>>, <<-1, 1>> >>
InRange == << <<1, 1>>, <<-1, 32768>>, <<-3, 65536>>, <<0, 1>>, <<1, 65536>>,
              <<3, 65536>>, <<-3, 4>> >>
OutOfRange == << <<3, 2>>, <<-3, 2>>, <<2, 1>>, <<-2, 1>>, <<1, 4>> >>
Patterns == {Scenario, InRange, OutOfRange}
Lengths == {0, 1, 4} \cup {k * sampleBlockSize + r : k \in 1..MaxBlocks, r \in {-1, 0, 1}}
ChannelOf(p, n) == [i \in 0..(n - 1) |-> p[(i % Len(p)) + 1]]
Revisions == {"earlier", "later"}
AudioBuffers ==
    {[numberOfChannels |-> 1, length |-> n, channelData |-> [c \in {0} |-> ChannelOf(p, n)]] :
        p \in Patterns, n \in Lengths}
    \cup {[numberOfChannels |-> 2, length |-> n,
           channelData |-> [c \in {0, 1} |-> ChannelOf(pq[c + 1], n)]] :
             pq \in {x \in Patterns \X Patterns : x[1] # x[2]}, n \in Lengths}

\* Objects with the interface of an AudioBuffer that the browser does not build: one
\* without channels, and one whose two channels hold different numbers of samples
\* (length is the length of channel 0, the one the loop of line 571 runs over).
MalformedBuffers ==
    {[numberOfChannels |-> 0, length |-> n, channelData |-> <<>>] : n \in Lengths}
    \cup {[numberOfChannels |-> 2, length |-> nm[1],
           channelData |-> [c \in {0, 1} |-> ChannelOf(InRange, nm[c + 1])]] :
             nm \in {x \in Lengths \X Lengths : x[1] # x[2]}}

(***************************************************************************)
(* AudioPlayer.  The handlers are state transformers on the record St of   *)
(* the player's and the browser's state, so that one handler can call      *)
(* another as the code does.                                               *)
(***************************************************************************)
St == [audioBuffer |-> audioBuffer, isPlaying |-> isPlaying,
       audioContextRef |-> audioContextRef, sourceRef |-> sourceRef,
       analyserRef |-> analyserRef, animationRef |-> animationRef,
       canvasRef |-> canvasRef, onIntensityChangeRef |-> onIntensityChangeRef,
       awaiting |-> awaiting, sources |-> sources, rafPending |-> rafPending,
       rafNext |-> rafNext, onPlayCompleteCalls |-> onPlayCompleteCalls,
       emitted |-> <<>>]

Commit(S) ==
    /\ isPlaying' = S.isPlaying
    /\ audioContextRef' = S.audioContextRef
    /\ sourceRef' = S.sourceRef
    /\ analyserRef' = S.analyserRef
    /\ animationRef' = S.animationRef
    /\ canvasRef' = S.canvasRef
    /\ onIntensityChangeRef' = S.onIntensityChangeRef
    /\ awaiting' = S.awaiting
    /\ sources' = S.sources
    /\ rafPending' = S.rafPending
    /\ rafNext' = S.rafNext
    /\ onPlayCompleteCalls' = S.onPlayCompleteCalls
    /\ emitted' = S.emitted

\* onIntensityChangeRef.current(v), guarded as in the code.  An emission records the
\* instance, the session (source id) it is about, the observer that received it, the
\* value, the handler that sent it, the frame id that ran (0: none) and the
\* onIntensityChange prop captured by the closure that sent it.
CallObserver(S, i, sess, v, by, frame, prop) ==
    IF S.onIntensityChangeRef[i] # 0
    THEN [S EXCEPT !.emitted = Append(@, [inst |-> i, sess |-> sess,
                                          obs |-> S.onIntensityChangeRef[i], val |-> v,
                                          by |-> by, frame |-> frame, prop |-> prop])]
    ELSE S

\* React drops a state update of a component that is no longer mounted.
setIsPlaying(S, i, v) ==
    IF S.audioBuffer = i /\ S.canvasRef[i] THEN [S EXCEPT !.isPlaying[i] = v] ELSE S

\* Cancelling an id whose callback already ran, or was cancelled, does nothing.
cancelAnimationFrame(S, id) ==
    [S EXCEPT !.rafPending = {f \in @ : f.id # id}]

\* source.stop(); source.disconnect().  stop() on a playing source queues its ended
\* event; on a source that already ended it does nothing.
SourceStop(src) ==
    [src EXCEPT !.state = IF @ = "playing" THEN "stopping" ELSE @,
                !.connected = FALSE]

stopAudio(S, i) ==
    LET s == S.sourceRef[i]
        S1 == IF s # 0
              THEN [S EXCEPT !.sources[s] = SourceStop(@), !.sourceRef[i] = 0]
              ELSE S
        S2 == IF S1.animationRef[i] # 0
              THEN cancelAnimationFrame(S1, S1.animationRef[i])
              ELSE S1
        S3 == setIsPlaying(S2, i, FALSE)
    IN  CallObserver(S3, i, s, Zero, "stop", 0, 0)

\* One invocation of the closure `draw` created for session sess of instance i.  The
\* bars it paints on the canvas (lines 75-94) are no state of the player.
draw(S, i, sess, prop, frame, d) ==
    IF S.analyserRef[i] = 0
    THEN S
    ELSE LET id == S.rafNext
             S1 == [S EXCEPT !.rafPending = @ \cup {[id |-> id, inst |-> i,
                                                     sess |-> sess, prop |-> prop]},
                             !.rafNext = id + 1,
                             !.animationRef[i] = id]
         IN  CallObserver(S1, i, sess, NormalizedIntensity(SpectrumOf(d)), "draw", frame, prop)

drawVisualizer(S, i, sess, prop, d) ==
    IF ~S.canvasRef[i] \/ S.analyserRef[i] = 0
    THEN S
    ELSE draw(S, i, sess, prop, 0, d)

\* playAudio from line 116 on: what runs once the context is known to run.
playAudioRest(S, i, prop, d) ==
    LET s == Len(S.sources) + 1
        S1 == [S EXCEPT !.sources = Append(@, [inst |-> i, state |-> "playing",
                                               connected |-> TRUE,
                                               analyserOut |-> TRUE]),
                        !.analyserRef[i] = s,
                        !.sourceRef[i] = s]
        S2 == setIsPlaying(S1, i, TRUE)
    IN  drawVisualizer(S2, i, s, prop, d)

\* playAudio, lines 100-114 and, when it does not suspend, the rest.  ctx is the state
\* a context created by this call is found in.  The early return on a null audioBuffer
\* is the guard of the actions that call it: the App renders the player, and so its
\* Replay button and its effect, only for a non-null buffer.
playAudio(S, i, prop, ctx, d) ==
    LET S1 == stopAudio(S, i)
        S2 == IF S1.audioContextRef[i] = "null"
              THEN [S1 EXCEPT !.audioContextRef[i] = ctx]
              ELSE S1
    IN  IF S2.audioContextRef[i] = "suspended"
        THEN [S2 EXCEPT !.awaiting[i] = Append(@, prop)]
        ELSE playAudioRest(S2, i, prop, d)

\* source.onended of source s.  Clearing the canvas changes no state of the player;
\* onPlayComplete (an empty function in the App) is counted per source.
onended(S, s) ==
    LET i == S.sources[s].inst
        S1 == setIsPlaying(S, i, FALSE)
        S2 == IF S1.animationRef[i] # 0
              THEN cancelAnimationFrame(S1, S1.animationRef[i])
              ELSE S1
        S3 == CallObserver(S2, i, s, Zero, "ended", 0, 0)
    IN  [S3 EXCEPT !.onPlayCompleteCalls[s] = @ + 1]

(***************************************************************************)
(* Actions of Spec.                                                        *)
(***************************************************************************)
RECURSIVE Suspended(_)
\* playAudio calls suspended at the await, over the instances 1..n
Suspended(n) == IF n = 0 THEN 0 ELSE Suspended(n - 1) + Len(awaiting[n])

\* playAudio calls that may still create a source
PendingCalls == Len(microtasks) + Suspended(MaxMounts)

\* The ids requestAnimationFrame hands out: a frame callback runs while rafNext <= MaxRaf,
\* and each started playback takes one more for its first, synchronous draw().
RafIds == 1..(MaxRaf + MaxSources)

CanPlay == Len(sources) + PendingCalls < MaxSources

\* The browser runs the microtasks of a task before any other task: the continuations
\* of resolved resume() promises, and the continuation of handleDownload after
\* `await audioBufferToMp3(...)`, whose promise is settled when it is returned.
Idle ==
    /\ microtasks = <<>>
    /\ \A k \in DOMAIN downloads : downloads[k].stage # "encoded"

PlayerInit ==
    /\ audioBuffer = 0
    /\ onIntensityChange = 1
    /\ nInst = 0
    /\ isPlaying = [i \in Inst |-> FALSE]
    /\ audioContextRef = [i \in Inst |-> "null"]
    /\ sourceRef = [i \in Inst |-> 0]
    /\ analyserRef = [i \in Inst |-> 0]
    /\ animationRef = [i \in Inst |-> 0]
    /\ canvasRef = [i \in Inst |-> FALSE]
    /\ onIntensityChangeRef = [i \in Inst |-> 0]
    /\ awaiting = [i \in Inst |-> <<>>]
    /\ microtasks = <<>>
    /\ sources = <<>>
    /\ rafPending = {}
    /\ rafNext = 1
    /\ onPlayCompleteCalls = [s \in 1..MaxSources |-> 0]
    /\ emitted = <<>>

\* new Uint8Array(bufferLength) is zero-filled; no frame has run.
AnalyserInit ==
    /\ dataArray = Silence
    /\ normalizedIntensity = <<>>

\* decodeAudioData has not been called.
DecodeInit ==
    /\ data = <<>>
    /\ numChannels = 1
    /\ decoded = [status |-> "none"]

\* The App after its initial key check (lines 520-530) found a key; no speech has
\* been requested.
AppInit ==
    /\ error = Null
    /\ isLoadingAudio = FALSE
    /\ hasKey = TRUE
    /\ speech = [status |-> "none"]
    /\ speechRequests = 0

\* audioBufferToMp3 has not been called.
EncoderInit ==
    /\ buffer = [numberOfChannels |-> 1, length |-> 0, channelData |-> [c \in {0} |-> <<>>]]
    /\ revision = "later"
    /\ lame = TRUE
    /\ encoded = [status |-> "none"]

\* No download and no poem has been requested; the page shows the styles of its
\* class names (lines 706-713): the pulse at opacity 0, the splatter unscaled at
\* opacity 0.3, the container untransformed, and smoothedIntensityRef at 0 (line 515).
Rest == [calls |-> 0, intensity |-> Zero,
         pulseOpacity |-> Zero, splatterScale |-> One, splatterOpacity |-> <<3, 10>>,
         containerTransform |-> [kind |-> "none"], smoothedIntensity |-> Zero,
         bgBlob1 |-> [translateX |-> Zero, translateY |-> Zero, scale |-> One],
         bgBlob2 |-> [translateX |-> Zero, translateY |-> Zero, scale |-> One]]

UiInit ==
    /\ isDownloading = FALSE
    /\ downloads = <<>>
    /\ isGeneratingText = FALSE
    /\ poem = [status |-> "none"]
    /\ visual = Rest

Init == PlayerInit /\ AnalyserInit /\ DecodeInit /\ AppInit /\ EncoderInit /\ UiInit

\* App: setAudioBuffer(buffer) with a decoded buffer; the AudioPlayer mounts and its
\* auto-play effect runs playAudio.
MountAudioPlayer ==
    \E ctx \in {"suspended", "running"}, d \in FrameSpectra :
       LET i == nInst + 1
           S0 == [St EXCEPT !.audioBuffer = i,
                            !.canvasRef[i] = TRUE,
                            !.onIntensityChangeRef[i] = onIntensityChange]
       IN  /\ Commit(playAudio(S0, i, onIntensityChange, ctx, d))
           /\ audioBuffer' = i
           /\ nInst' = i

SetAudioBuffer ==
    /\ Idle
    /\ audioBuffer = 0
    /\ nInst < MaxMounts
    /\ CanPlay
    /\ MountAudioPlayer
    /\ UNCHANGED <<onIntensityChange, microtasks, analyserVars, decodeVars, appVars, encoderVars, uiVars>>

\* The Replay button (rendered when !isPlaying && audioBuffer): playAudio.
Replay ==
    /\ Idle
    /\ audioBuffer # 0
    /\ ~isPlaying[audioBuffer]
    /\ CanPlay
    /\ \E d \in FrameSpectra :
         Commit(playAudio(St, audioBuffer, onIntensityChange,
                          audioContextRef[audioBuffer], d))
    /\ UNCHANGED <<audioBuffer, onIntensityChange, nInst, microtasks,
                   analyserVars, decodeVars, appVars, encoderVars, uiVars>>

\* The AudioPlayer instance i unmounts: its canvas is detached, the effect's cleanup
\* (line 154) runs stopAudio, its state is dropped.
Unmount(S, i) ==
    IF S.canvasRef[i]
    THEN [stopAudio(S, i) EXCEPT !.canvasRef[i] = FALSE, !.isPlaying[i] = FALSE]
    ELSE S

\* App: setAudioBuffer(null) (the Edit Text button).  The AudioPlayer unmounts: its
\* canvas is detached, the effect's cleanup runs stopAudio, its state is dropped.
EditText ==
    /\ Idle
    /\ hasKey
    /\ audioBuffer # 0
    /\ Commit(Unmount(St, audioBuffer))
    /\ audioBuffer' = 0
    /\ UNCHANGED <<onIntensityChange, nInst, microtasks, analyserVars, decodeVars, appVars, encoderVars, uiVars>>

\* The context of instance i starts running: the promises of its resume() calls
\* resolve in the order of the calls, and their continuations are queued.
ResumeResolved(i) ==
    /\ Idle
    /\ audioContextRef[i] = "suspended"
    /\ awaiting[i] # <<>>
    /\ audioContextRef' = [audioContextRef EXCEPT ![i] = "running"]
    /\ microtasks' = [k \in 1..Len(awaiting[i]) |-> [inst |-> i, prop |-> awaiting[i][k]]]
    /\ awaiting' = [awaiting EXCEPT ![i] = <<>>]
    /\ emitted' = <<>>
    /\ UNCHANGED <<audioBuffer, onIntensityChange, nInst, isPlaying, sourceRef,
                   analyserRef, animationRef, canvasRef, onIntensityChangeRef, sources,
                   rafPending, rafNext, onPlayCompleteCalls,
                   analyserVars, decodeVars, appVars, encoderVars, uiVars>>

\* A suspended playAudio call continues after its await (lines 116-146).
PlayAudioContinue ==
    /\ microtasks # <<>>
    /\ \E d \in FrameSpectra :
         Commit(playAudioRest(St, Head(microtasks).inst, Head(microtasks).prop, d))
    /\ microtasks' = Tail(microtasks)
    /\ UNCHANGED <<audioBuffer, onIntensityChange, nInst, analyserVars, decodeVars, appVars, encoderVars, uiVars>>

\* The browser runs the scheduled animation-frame callback of id `id`.
AnimationFrame(id) ==
    /\ Idle
    /\ rafNext <= MaxRaf
    /\ \E f \in rafPending, d \in FrameSpectra :
         /\ f.id = id
         /\ Commit(draw([St EXCEPT !.rafPending = @ \ {f}],
                        f.inst, f.sess, f.prop, f.id, d))
    /\ UNCHANGED <<audioBuffer, onIntensityChange, nInst, microtasks,
                   analyserVars, decodeVars, appVars, encoderVars, uiVars>>

\* Source s plays its buffer to the end: its ended event is dispatched.
SourceEnded(s) ==
    /\ Idle
    /\ s \in 1..Len(sources)
    /\ sources[s].state = "playing"
    /\ Commit(onended([St EXCEPT !.sources[s].state = "ended"], s))
    /\ UNCHANGED <<audioBuffer, onIntensityChange, nInst, microtasks,
                   analyserVars, decodeVars, appVars, encoderVars, uiVars>>

\* The ended event of a source that stop() halted is dispatched.
SourceStopped(s) ==
    /\ Idle
    /\ s \in 1..Len(sources)
    /\ sources[s].state = "stopping"
    /\ Commit(onended([St EXCEPT !.sources[s].state = "stopped"], s))
    /\ UNCHANGED <<audioBuffer, onIntensityChange, nInst, microtasks,
                   analyserVars, decodeVars, appVars, encoderVars, uiVars>>

\* SetObserver, were the ref set once at mount and never updated
SetObserverStale ==
    /\ Idle
    /\ onIntensityChange < MaxObservers
    /\ onIntensityChange' = onIntensityChange + 1
    /\ emitted' = <<>>
    /\ UNCHANGED <<audioBuffer, nInst, isPlaying, audioContextRef, sourceRef, analyserRef,
                   animationRef, canvasRef, onIntensityChangeRef, awaiting, microtasks,
                   sources, rafPending, rafNext, onPlayCompleteCalls,
                   analyserVars, decodeVars, appVars, encoderVars, uiVars>>

\* The effect of lines 20-22 after an App render: the App passes a new
\* handleIntensityChange, the mounted instance stores it in its ref.
SetObserver ==
    /\ Idle
    /\ onIntensityChange < MaxObservers
    /\ onIntensityChange' = onIntensityChange + 1
    /\ onIntensityChangeRef' =
         IF audioBuffer # 0
         THEN [onIntensityChangeRef EXCEPT ![audioBuffer] = onIntensityChange + 1]
         ELSE onIntensityChangeRef
    /\ emitted' = <<>>
    /\ UNCHANGED <<audioBuffer, nInst, isPlaying, audioContextRef, sourceRef, analyserRef,
                   animationRef, canvasRef, awaiting, microtasks, sources, rafPending,
                   rafNext, onPlayCompleteCalls,
                   analyserVars, decodeVars, appVars, encoderVars, uiVars>>

PlayerNext ==
    \/ SetAudioBuffer
    \/ Replay
    \/ EditText
    \/ \E i \in Inst : ResumeResolved(i)
    \/ PlayAudioContinue
    \/ \E id \in RafIds : AnimationFrame(id)
    \/ \E s \in 1..MaxSources : SourceEnded(s)
    \/ \E s \in 1..MaxSources : SourceStopped(s)
    \/ SetObserver

Next == PlayerNext

Spec == Init /\ [][Next]_vars

(***************************************************************************)
(* SpecAnalyser: the frames of one analysis loop, as a function of the     *)
(* spectrum each frame reads (draw, lines 58-68).                          *)
(***************************************************************************)
DrawFrame ==
    /\ \E d \in Spectra :
         /\ dataArray' = d
         /\ normalizedIntensity' = NormalizedIntensity(SpectrumOf(d))
    /\ UNCHANGED <<playerVars, decodeVars, appVars, encoderVars, uiVars>>

SpecAnalyser == Init /\ [][DrawFrame]_vars

(***************************************************************************)
(* SpecDecode: one call of decodeAudioData on a payload.                   *)
(***************************************************************************)
InitDecode ==
    /\ PlayerInit
    /\ AnalyserInit
    /\ AppInit
    /\ UiInit
    /\ EncoderInit
    /\ data \in Payloads \cup WordPayloads
    /\ numChannels \in Channels
    /\ decoded = [status |-> "none"]

Decode ==
    /\ decoded.status = "none"
    /\ decoded' = decodeAudioData(data, numChannels)
    /\ UNCHANGED <<data, numChannels, playerVars, analyserVars, appVars, encoderVars, uiVars>>

SpecDecode == InitDecode /\ [][Decode]_vars

(***************************************************************************)
(* SpecEncode: one call of audioBufferToMp3 on a buffer.                   *)
(***************************************************************************)
InitEncode ==
    /\ PlayerInit
    /\ AnalyserInit
    /\ DecodeInit
    /\ AppInit
    /\ UiInit
    /\ buffer \in AudioBuffers
    /\ revision \in Revisions
    /\ lame \in BOOLEAN
    /\ revision = "earlier" => lame
    /\ encoded = [status |-> "none"]

\* What the encoder returns, call after call: the lengths of its chunks, drawn for as
\* many calls as the loop has room for over the buffer's length (one per started
\* block) and one flush call.  The odd calls return chunks of one length and the even
\* calls chunks of another.
Returns(buf) ==
    {[k \in 1..((buf.length \div sampleBlockSize) + 2) |-> p[(k % 2) + 1]] :
        p \in ChunkLengths \X ChunkLengths}

Encode ==
    /\ encoded.status = "none"
    /\ \E rets \in Returns(buffer) :
         encoded' = audioBufferToMp3(buffer, revision, lame, rets)
    /\ UNCHANGED <<buffer, revision, lame, playerVars, analyserVars, decodeVars, appVars,
                   uiVars>>

SpecEncode == InitEncode /\ [][Encode]_vars

(***************************************************************************)
(* SpecEncodeAny: one call of audioBufferToMp3 on an object that has the   *)
(* interface of an AudioBuffer but not its shape.  The encoder is taken to  *)
(* return from every call, as in SpecEncode: the source holds no check of   *)
(* the chunks it hands over.                                                *)
(***************************************************************************)
InitEncodeAny ==
    /\ PlayerInit
    /\ AnalyserInit
    /\ DecodeInit
    /\ AppInit
    /\ UiInit
    /\ buffer \in MalformedBuffers
    /\ revision \in Revisions
    /\ lame \in BOOLEAN
    /\ revision = "earlier" => lame
    /\ encoded = [status |-> "none"]

SpecEncodeAny == InitEncodeAny /\ [][Encode]_vars

(***************************************************************************)
(* SpecGenerate: the Recite button (src/services/geminiService.ts, lines   *)
(* 637-661 and 817-825), the request it awaits, and Edit Text.             *)
(***************************************************************************)
\* handleGenerateAndPlay, were the Recite button not disabled while isLoadingAudio
HandleGenerateAndPlayEnabled ==
    /\ Idle
    /\ hasKey
    /\ audioBuffer = 0
    /\ speechRequests < 2
    /\ nInst < MaxMounts
    /\ CanPlay
    /\ isLoadingAudio' = TRUE
    /\ error' = Null
    /\ audioBuffer' = 0
    /\ speech' = [status |-> "pending"]
    /\ speechRequests' = speechRequests + 1
    /\ UNCHANGED <<onIntensityChange, nInst, isPlaying, audioContextRef, sourceRef,
                   analyserRef, animationRef, canvasRef, onIntensityChangeRef, awaiting,
                   microtasks, sources, rafPending, rafNext, onPlayCompleteCalls,
                   emitted, hasKey,
                   analyserVars, decodeVars, encoderVars, uiVars>>

\* handleGenerateAndPlay up to its await.  The button is rendered while audioBuffer is
\* null and is disabled while isLoadingAudio or while the text is blank, so the
\* handler's "Text is empty." return is not taken.
HandleGenerateAndPlay ==
    /\ Idle
    /\ hasKey
    /\ audioBuffer = 0
    /\ ~isLoadingAudio
    /\ nInst < MaxMounts
    /\ CanPlay
    /\ isLoadingAudio' = TRUE
    /\ error' = Null
    /\ audioBuffer' = 0
    /\ speech' = [status |-> "pending"]
    /\ speechRequests' = speechRequests + 1
    /\ UNCHANGED <<onIntensityChange, nInst, isPlaying, audioContextRef, sourceRef,
                   analyserRef, animationRef, canvasRef, onIntensityChangeRef, awaiting,
                   microtasks, sources, rafPending, rafNext, onPlayCompleteCalls,
                   emitted, hasKey,
                   analyserVars, decodeVars, encoderVars, uiVars>>

\* err.message?.includes("Requested entity was not found")
EntityNotFound(msg) == msg = "Requested entity was not found."

\* setError(err.message || "...") of the catch block (line 656; earlier revision: 249)
SpeechError(rev, message) ==
    IF message # "" THEN message
    ELSE IF rev = "later"
    THEN "Failed to generate speech. Ensure you have selected a valid project API key."
    ELSE "Failed to generate speech. Please try again."

\* generateRevolutionarySpeech settles with one of `replies` and handleGenerateAndPlay
\* runs to its end: setAudioBuffer(buffer), or the catch block, then the finally block.
SpeechSettledOn(replies) ==
    /\ speechRequests > 0
    /\ speechRequests' = speechRequests - 1
    /\ \E key \in BOOLEAN, reply \in replies :
         LET r == generateRevolutionarySpeech(key, reply)
         IN  /\ speech' = r
             /\ IF r.status = "resolved"
                THEN /\ IF hasKey
                        THEN MountAudioPlayer
                        ELSE \* the key screen is up (lines 683-700): the state is set,
                             \* and no AudioPlayer is rendered
                             /\ audioBuffer' = nInst + 1
                             /\ nInst' = nInst + 1
                             /\ emitted' = <<>>
                             /\ UNCHANGED <<isPlaying, audioContextRef, sourceRef,
                                            analyserRef, animationRef, canvasRef,
                                            onIntensityChangeRef, awaiting, sources,
                                            rafPending, rafNext, onPlayCompleteCalls>>
                     /\ UNCHANGED <<error, hasKey, microtasks>>
                ELSE /\ IF revision = "later" /\ EntityNotFound(r.message)
                        THEN /\ hasKey' = FALSE
                             /\ error' = "API authentication failed. Please select your API key."
                        ELSE /\ error' = SpeechError(revision, r.message)
                             /\ UNCHANGED hasKey
                     /\ UNCHANGED <<audioBuffer, nInst, isPlaying, audioContextRef,
                                    sourceRef, analyserRef, animationRef, canvasRef,
                                    onIntensityChangeRef, awaiting, microtasks, sources,
                                    rafPending, rafNext, onPlayCompleteCalls,
                                    emitted>>
    /\ Idle
    /\ isLoadingAudio' = FALSE
    /\ UNCHANGED <<onIntensityChange, analyserVars, decodeVars, encoderVars, uiVars>>

SpeechSettled == SpeechSettledOn(Replies)

GenerateNext ==
    \/ HandleGenerateAndPlay
    \/ SpeechSettled
    \/ EditText

SpecGenerate == Init /\ [][GenerateNext]_vars

(***************************************************************************)
(* SpecApp: the handlers of the App that await something                   *)
(* (src/services/geminiService.ts): handleGenerateAndPlay, handleDownload  *)
(* (lines 588-609; earlier revision 191-211), handleTextGeneration (lines  *)
(* 611-635; earlier revision 213-232), with Edit Text and the key screen.  *)
(* The mode buttons and the two text fields are always at hand while the   *)
(* page is shown, so the `mode === 'EDIT'` and blank-text conditions of    *)
(* the buttons put no order on the handlers and are left out.              *)
(***************************************************************************)
\* generatePoemText (src/unnamed/part_001, lines 44-80): a text is a sequence of
\* characters.
PoemTexts == {<<>>, <<" ">>, <<"k">>, <<" ", "k">>, <<"k", " ">>}
PoemReplies ==
    {[kind |-> "rejected", message |-> m, text |-> <<>>] : m \in Messages}
    \cup {[kind |-> "none", message |-> "", text |-> <<>>]}
    \cup {[kind |-> "text", message |-> "", text |-> t] : t \in PoemTexts}

RECURSIVE trimStart(_)
trimStart(t) == IF t # <<>> /\ Head(t) = " " THEN trimStart(Tail(t)) ELSE t

RECURSIVE trimEnd(_)
trimEnd(t) ==
    IF t # <<>> /\ t[Len(t)] = " " THEN trimEnd(SubSeq(t, 1, Len(t) - 1)) ELSE t

\* String.prototype.trim
trim(t) == trimEnd(trimStart(t))

generatePoemText(key, reply) ==
    IF ~key
    THEN [status |-> "rejected",
          message |-> "API Key is missing. Please check your configuration.",
          text |-> <<>>]
    ELSE IF reply.kind = "rejected"
    THEN [status |-> "rejected", message |-> reply.message, text |-> <<>>]
    ELSE IF reply.kind = "none" \/ reply.text = <<>>
    THEN \* !response || !response.text
         [status |-> "rejected", message |-> "Empty response from AI model.",
          text |-> <<>>]
    ELSE [status |-> "resolved", message |-> "", text |-> trim(reply.text)]

\* setError of handleDownload's catch block, were it to show the caught message as
\* it is
DownloadErrorAsThrown(rev, message) == message

\* setError of handleDownload's catch block (line 605; earlier revision: 207)
DownloadError(rev, message) ==
    IF rev = "later"
    THEN "Download failed: " \o (IF message # "" THEN message ELSE "Unknown error")
    ELSE "MP3 generation failed. Please try again."

\* setError of handleTextGeneration's catch block, were it to set no message
PoemErrorNone(rev, message) == Null

\* setError of handleTextGeneration's catch block (lines 624-630; earlier revision:
\* 228)
PoemError(rev, message) ==
    IF rev = "earlier" THEN "Failed to generate poem. Please try again."
    ELSE IF EntityNotFound(message)
    THEN "API authentication failed. Please select your API key."
    ELSE "Poem generation failed. Please try again or check your API key."

\* What handleDownload keeps of the outcome of audioBufferToMp3: the Blob it hands to
\* the anchor, or the error it catches.
Outcome(r) == [status |-> r.status, message |-> r.message, blob |-> r.blob]

\* The AudioBuffer in the App's audioBuffer state: the one the last speech request
\* decoded.
CurrentBuffer ==
    [numberOfChannels |-> speech.buffer.numberOfChannels,
     length |-> speech.buffer.length,
     channelData |-> speech.buffer.channelData]

\* The Download button (line 832, earlier revision 454-455), rendered with the player
\* and disabled while isDownloading, were it never disabled
HandleDownloadEnabled ==
    /\ Idle
    /\ hasKey
    /\ audioBuffer # 0
    /\ Len(downloads) < MaxDownloads
    /\ isDownloading' = TRUE
    /\ IF revision = "later"
       THEN /\ error' = Null
            /\ downloads' = Append(downloads,
                   [clip |-> audioBuffer, buffer |-> CurrentBuffer, stage |-> "timer",
                    outcome |-> [status |-> "none"]])
       ELSE /\ UNCHANGED error
            /\ \E rets \in Returns(CurrentBuffer) :
                 downloads' = Append(downloads,
                   [clip |-> audioBuffer, buffer |-> CurrentBuffer, stage |-> "encoded",
                    outcome |-> Outcome(audioBufferToMp3(CurrentBuffer, revision, lame,
                                                         rets))])
    /\ UNCHANGED <<playerVars, analyserVars, decodeVars, encoderVars, isLoadingAudio,
                   hasKey, speech, speechRequests, isGeneratingText, poem, visual>>

\* handleDownload up to its first await: the 50 ms timer of line 594; in the earlier
\* revision audioBufferToMp3 itself, which runs to its end within the call.  The
\* Download button is rendered with the player and disabled while isDownloading.
HandleDownload ==
    /\ Idle
    /\ hasKey
    /\ audioBuffer # 0
    /\ ~isDownloading
    /\ Len(downloads) < MaxDownloads
    /\ isDownloading' = TRUE
    /\ IF revision = "later"
       THEN /\ error' = Null
            /\ downloads' = Append(downloads,
                   [clip |-> audioBuffer, buffer |-> CurrentBuffer, stage |-> "timer",
                    outcome |-> [status |-> "none"]])
       ELSE /\ UNCHANGED error
            /\ \E rets \in Returns(CurrentBuffer) :
                 downloads' = Append(downloads,
                   [clip |-> audioBuffer, buffer |-> CurrentBuffer, stage |-> "encoded",
                    outcome |-> Outcome(audioBufferToMp3(CurrentBuffer, revision, lame,
                                                         rets))])
    /\ UNCHANGED <<playerVars, analyserVars, decodeVars, encoderVars, isLoadingAudio,
                   hasKey, speech, speechRequests, isGeneratingText, poem, visual>>

\* The timer of line 594 fires and audioBufferToMp3 runs on the buffer the handler
\* was called with (later revision).
DownloadTimer ==
    /\ Idle
    /\ \E k \in 1..MaxDownloads :
         /\ k <= Len(downloads)
         /\ downloads[k].stage = "timer"
         /\ \E rets \in Returns(downloads[k].buffer) :
              downloads' = [downloads EXCEPT
                  ![k].stage = "encoded",
                  ![k].outcome = Outcome(audioBufferToMp3(downloads[k].buffer, revision,
                                                          lame, rets))]
    /\ UNCHANGED <<playerVars, analyserVars, decodeVars, appVars, encoderVars,
                   isDownloading, isGeneratingText, poem, visual>>

\* the sequence s without its element k
Without(s, k) == SubSeq(s, 1, k - 1) \o SubSeq(s, k + 1, Len(s))

\* handleDownload after `await audioBufferToMp3(...)`: the anchor is clicked, or the
\* catch block sets the error; then the finally block.
DownloadSettled ==
    /\ \E k \in 1..MaxDownloads :
         /\ k <= Len(downloads)
         /\ downloads[k].stage = "encoded"
         /\ \A j \in 1..(k - 1) : downloads[j].stage # "encoded"
         /\ error' = IF downloads[k].outcome.status = "rejected"
                     THEN DownloadError(revision, downloads[k].outcome.message)
                     ELSE error
         /\ downloads' = Without(downloads, k)
    /\ isDownloading' = FALSE
    /\ UNCHANGED <<playerVars, analyserVars, decodeVars, encoderVars, isLoadingAudio,
                   hasKey, speech, speechRequests, isGeneratingText, poem, visual>>

\* handleTextGeneration up to its await.  The Generate Poem button (lines 789-790) is
\* disabled while isGeneratingText or while the topic is blank, so the handler's
\* "Please enter a topic." return is not taken.
HandleTextGeneration ==
    /\ Idle
    /\ hasKey
    /\ ~isGeneratingText
    /\ isGeneratingText' = TRUE
    /\ error' = Null
    /\ poem' = [status |-> "pending"]
    /\ UNCHANGED <<playerVars, analyserVars, decodeVars, encoderVars, isLoadingAudio,
                   hasKey, speech, speechRequests, isDownloading, downloads, visual>>

\* generatePoemText settles and handleTextGeneration runs to its end: setPoemText and
\* setMode, or the catch block, then the finally block.  When the catch block sets
\* hasKey to false the key screen replaces the page, and a mounted AudioPlayer
\* unmounts.
TextSettled ==
    /\ Idle
    /\ poem.status = "pending"
    /\ \E key \in BOOLEAN, reply \in PoemReplies :
         LET r == generatePoemText(key, reply)
         IN  /\ poem' = r
             /\ IF r.status = "resolved"
                THEN UNCHANGED <<error, hasKey, playerVars>>
                ELSE /\ error' = PoemError(revision, r.message)
                     /\ IF revision = "later" /\ EntityNotFound(r.message)
                        THEN /\ hasKey' = FALSE
                             /\ IF audioBuffer # 0
                                THEN Commit(Unmount(St, audioBuffer))
                                ELSE UNCHANGED <<isPlaying, audioContextRef, sourceRef,
                                                 analyserRef, animationRef, canvasRef,
                                                 onIntensityChangeRef, awaiting, sources,
                                                 rafPending, rafNext, onPlayCompleteCalls,
                                                 emitted>>
                             /\ UNCHANGED <<audioBuffer, onIntensityChange, nInst,
                                            microtasks>>
                        ELSE UNCHANGED <<hasKey, playerVars>>
    /\ isGeneratingText' = FALSE
    /\ UNCHANGED <<analyserVars, decodeVars, encoderVars, isLoadingAudio, speech, speechRequests,
                   isDownloading, downloads, visual>>

\* handleOpenKeySelector (lines 532-537) after its await: the page is shown again,
\* and with it the AudioPlayer of a buffer the App holds, as a new instance.
HandleOpenKeySelector ==
    /\ Idle
    /\ ~hasKey
    /\ hasKey' = TRUE
    /\ IF audioBuffer # 0
       THEN /\ nInst < MaxMounts
            /\ CanPlay
            /\ MountAudioPlayer
       ELSE UNCHANGED <<audioBuffer, nInst, isPlaying, audioContextRef, sourceRef,
                        analyserRef, animationRef, canvasRef, onIntensityChangeRef,
                        awaiting, sources, rafPending, rafNext, onPlayCompleteCalls,
                        emitted>>
    /\ UNCHANGED <<onIntensityChange, microtasks, analyserVars, decodeVars, error,
                   isLoadingAudio, speech, speechRequests, encoderVars, uiVars>>

\* The responses the speech request settles with in SpecApp: every kind of failure,
\* and two clips.
AppStrings == {<<>>, <<" ">>, <<"A">>, <<"A", "A">>, <<"A", "A", "A">>, <<"g", "/", "A">>}
AppReplies == {r \in Replies : r.kind = "audio" => r.data \in AppStrings}

AppSpeechSettled == SpeechSettledOn(AppReplies)

\* The App of either revision, with lamejs loaded or not (the earlier revision
\* imports it, line 121).
InitApp ==
    /\ PlayerInit
    /\ AnalyserInit
    /\ DecodeInit
    /\ AppInit
    /\ UiInit
    /\ buffer = [numberOfChannels |-> 1, length |-> 0, channelData |-> [c \in {0} |-> <<>>]]
    /\ revision \in Revisions
    /\ lame \in BOOLEAN
    /\ revision = "earlier" => lame
    /\ encoded = [status |-> "none"]

AppNext ==
    \/ HandleGenerateAndPlay
    \/ AppSpeechSettled
    \/ EditText
    \/ HandleDownload
    \/ DownloadTimer
    \/ DownloadSettled
    \/ HandleTextGeneration
    \/ TextSettled
    \/ HandleOpenKeySelector

SpecApp == InitApp /\ [][AppNext]_vars

(***************************************************************************)
(* SpecVisual: handleIntensityChange (src/services/geminiService.ts, lines *)
(* 663-681; earlier revision 255-281) over the values an AudioPlayer       *)
(* delivers, while the page is shown (its refs are attached).  The styles  *)
(* are exact rationals; the intensities are squares, so that               *)
(* Math.pow(intensity, 1.5) is rational.                                   *)
(***************************************************************************)
Intensities == {Zero, <<1, 4>>, <<9, 16>>, One}

\* the three values Math.random() returns in one call of the handler (line 672)
Randoms == {<< <<1, 2>>, <<1, 2>>, <<1, 2>> >>, << <<0, 1>>, <<3, 4>>, <<1, 4>> >>}

\* smoothedIntensityRef.current += (intensity - smoothedIntensityRef.current) * 0.05
Smoothed(sVal, intensity) ==
    RatAdd(sVal, RatTimes(RatSub(intensity, sVal), <<1, 20>>))

handleIntensityChange(v, intensity, rnd) ==
    LET shake == RatTimes(RatSub(intensity, <<2, 5>>), <<10, 1>>)
        sVal == Smoothed(v.smoothedIntensity, intensity)
    IN  [calls |-> v.calls + 1,
         intensity |-> intensity,
         pulseOpacity |-> RatTimes(RatTimes(intensity, RatSqrt(intensity)), <<4, 5>>),
         splatterScale |-> RatAdd(One, RatTimes(intensity, <<1, 5>>)),
         splatterOpacity |->
             RatAdd(<<3, 10>>, RatTimes(RatTimes(intensity, intensity), <<3, 5>>)),
         containerTransform |->
             IF RatLt(<<2, 5>>, intensity)
             THEN [kind |-> "translate-rotate",
                   translateX |-> RatTimes(RatSub(rnd[1], <<1, 2>>), shake),
                   translateY |-> RatTimes(RatSub(rnd[2], <<1, 2>>), shake),
                   rotate |-> RatTimes(RatTimes(RatSub(rnd[3], <<1, 2>>), intensity),
                                       <<1, 2>>)]
             ELSE [kind |-> "none"],
         smoothedIntensity |-> sVal,
         bgBlob1 |-> [translateX |-> RatTimes(sVal, <<-50, 1>>),
                      translateY |-> RatTimes(sVal, <<-30, 1>>),
                      scale |-> RatAdd(One, RatTimes(sVal, <<1, 10>>))],
         bgBlob2 |-> [translateX |-> RatTimes(sVal, <<50, 1>>),
                      translateY |-> RatTimes(sVal, <<30, 1>>),
                      scale |-> RatAdd(One, RatTimes(sVal, <<3, 20>>))]]

\* The AudioPlayer calls onIntensityChange: a frame's intensity, or the 0.0 of
\* stopAudio and of the ended handler.
IntensityChange ==
    /\ visual.calls < MaxEmissions
    /\ \E intensity \in Intensities, rnd \in Randoms :
         visual' = handleIntensityChange(visual, intensity, rnd)
    /\ UNCHANGED <<playerVars, analyserVars, decodeVars, appVars, encoderVars,
                   isDownloading, downloads, isGeneratingText, poem>>

SpecVisual == Init /\ [][IntensityChange]_vars

(***************************************************************************)
(* Properties of the AudioPlayer (Spec).                                   *)
(***************************************************************************)
SourceIds == 1..Len(sources)
SourcesOf(i) == {s \in SourceIds : sources[s].inst = i}
Playing == {s \in SourceIds : sources[s].state = "playing"}
\* the emissions of e that instance i sent
SentBy(e, i) == SelectSeq(e, LAMBDA x : x.inst = i)
\* the emissions of e about session s
SentFor(e, s) == SelectSeq(e, LAMBDA x : x.sess = s)

\* The last playback of instance i was halted by stopAudio before its natural end and
\* no playAudio call has begun on i since.
Halted(i) ==
    /\ sourceRef[i] = 0
    /\ awaiting[i] = <<>>
    /\ \A k \in 1..Len(microtasks) : microtasks[k].inst # i
    /\ SourcesOf(i) # {}
    /\ LET s == CHOOSE x \in SourcesOf(i) : \A y \in SourcesOf(i) : y <= x
       IN  sources[s].state \in {"stopping", "stopped"}

\* C1: stopping a clip that is still playing delivers exactly one 0.0 to the observer,
\* and from then on the instance delivers no intensity at all (neither from a frame
\* nor from the ended handler of the stopped source) until a new playback is started.
C1_StopEmitsOnceThenSilent ==
    [][\A i \in Inst :
         /\ (/\ sourceRef[i] # 0
             /\ sources[sourceRef[i]].state = "playing"
             /\ sources'[sourceRef[i]].state = "stopping")
                => \E k \in 1..Len(emitted') :
                     /\ emitted'[k].inst = i /\ emitted'[k].by = "stop"
                     /\ emitted'[k].val = Zero
                     /\ \A j \in 1..Len(emitted') :
                          (emitted'[j].inst = i /\ emitted'[j].by = "stop") => j = k
         /\ (Halted(i) /\ sourceRef'[i] = 0 /\ awaiting'[i] = <<>>)
                => SentBy(emitted', i) = <<>>]_vars

\* C2: at most one buffer source is started and not stopped, and at most one analysis
\* loop has a scheduled frame, whatever the order of playAudio calls (one of them
\* possibly beginning while another is suspended at its await), stops and ended events.
C2_SinglePlaybackSession ==
    /\ Cardinality(Playing) <= 1
    /\ Cardinality({f.sess : f \in rafPending}) <= 1

\* A session is torn down once stopAudio stopped its source or a newer playback took
\* its place in sourceRef.
TornDown(s) ==
    \/ sources[s].state \in {"stopping", "stopped"}
    \/ sourceRef[sources[s].inst] # s

\* C3: no frame of a torn-down session stays scheduled (so its draw callback never
\* runs again).
C3_NoFrameAfterTeardown ==
    \A f \in rafPending : ~TornDown(f.sess)

\* C4: when a clip ends naturally, its session gets exactly one final 0.0, its pending
\* frame is cancelled, and no later event -- a stopAudio at unmount included -- delivers
\* another intensity for that session.
C4_NaturalEndEmitsOnce ==
    [][\A s \in SourceIds :
         /\ (sources[s].state = "playing" /\ sources'[s].state = "ended")
                => /\ Len(SentFor(emitted', s)) = 1
                   /\ SentFor(emitted', s)[1].val = Zero
                   /\ \A f \in rafPending' : f.sess # s
         /\ (sources[s].state = "ended" /\ sourceRef'[sources[s].inst] \in {0, s})
                => SentFor(emitted', s) = <<>>]_vars

C6_StopAudioIdempotent ==
    \A i \in 1..nInst : stopAudio(stopAudio(St, i), i) = stopAudio(St, i)

\* C7: once stopAudio has completed (the source handle is cleared), the instance holds
\* no analyser: analyserRef is cleared and no analyser of the instance stays connected.
C7_StopReleasesAnalyser ==
    \A i \in Inst :
        sourceRef[i] = 0 =>
            /\ analyserRef[i] = 0
            /\ \A s \in SourcesOf(i) : ~sources[s].analyserOut

(***************************************************************************)
(* Properties of the intensity reduction (SpecAnalyser).                   *)
(***************************************************************************)
RECURSIVE WeightedCount(_, _, _)
\* the sum over the magnitudes v of V of v times the number of bins of J holding v
WeightedCount(d, J, V) ==
    IF V = {} THEN 0
    ELSE LET v == CHOOSE x \in V : TRUE
         IN  v * Cardinality({j \in J : d[j] = v}) + WeightedCount(d, J, V \ {v})

\* the sum of d over the set J of bins
SumOver(d, J) == WeightedCount(d, J, {d[j] : j \in J})

\* the lowest 70% of the bins of d
LowBins(d) == 0..(((7 * Cardinality(DOMAIN d)) \div 10) - 1)

\* min(1, (sum of the low bins) / (number of low bins * 255))
ExpectedIntensity(d) ==
    LET sum == SumOver(d, LowBins(d))
        full == Cardinality(LowBins(d)) * 255
    IN  IF sum >= full THEN <<1, 1>> ELSE <<sum, full>>

C9_IntensityExtremes ==
    normalizedIntensity # <<>> =>
        LET d == SpectrumOf(dataArray)
        IN  /\ (\A j \in DOMAIN d : d[j] = 0)
                 => normalizedIntensity[1] = 0
            /\ (\A j \in LowBins(d) : d[j] = 255)
                 => normalizedIntensity[1] = normalizedIntensity[2]

\* A frame read 255 in the 89 low bins and 1 in the higher bins, and computed 1.
C9_Witness ==
    /\ dataArray = <<ByteMax, 1, 89>>
    /\ normalizedIntensity[1] = normalizedIntensity[2]

(***************************************************************************)
(* Properties of decodeAudioData (SpecDecode).                             *)
(***************************************************************************)
\* the signed 16-bit little-endian integer of the bytes lo, hi
SignedLE(lo, hi) == (IF hi >= 128 THEN hi - 256 ELSE hi) * 256 + lo

\* C10: a mono payload of 2N bytes (N >= 1) decodes to one channel of N samples,
\* sample i being int16le(bytes 2i, 2i+1) / 32768, which lies in [-1, 1).
C10_MonoDecode ==
    (/\ decoded.status # "none"
     /\ numChannels = 1
     /\ Len(data) >= 2
     /\ Len(data) % 2 = 0)
        => /\ decoded.status = "ok"
           /\ decoded.numberOfChannels = 1
           /\ decoded.length = Len(data) \div 2
           /\ DOMAIN decoded.channelData = {0}
           /\ DOMAIN decoded.channelData[0] = 0..((Len(data) \div 2) - 1)
           /\ \A i \in 0..((Len(data) \div 2) - 1) :
                LET x == decoded.channelData[0][i]
                IN  /\ RatEq(x, <<SignedLE(data[2 * i + 1], data[2 * i + 2]), 32768>>)
                    /\ RatLeq(<<-1, 1>>, x)
                    /\ RatLt(x, <<1, 1>>)

\* The bytes 00 80 FF 7F decoded, mono, to the samples -32768/32768 and 32767/32768.
C10_Witness ==
    /\ numChannels = 1
    /\ data = <<0, 128, 255, 127>>
    /\ decoded.status = "ok"
    /\ decoded.length = 2
    /\ decoded.channelData[0][0] = <<-32768, 32768>>
    /\ decoded.channelData[0][1] = <<32767, 32768>>

C12_PartialFrameDiscarded ==
    (/\ decoded.status # "none"
     /\ Len(data) > 0
     /\ Len(data) % (2 * numChannels) # 0)
        => /\ decoded.status = "ok"
           /\ decoded.length = (Len(data) \div 2) \div numChannels
           /\ \A c \in 0..(numChannels - 1) :
                /\ DOMAIN decoded.channelData[c] = 0..(decoded.length - 1)
                /\ \A i \in 0..(decoded.length - 1) :
                     RatEq(decoded.channelData[c][i],
                           <<SignedLE(data[2 * (i * numChannels + c) + 1],
                                      data[2 * (i * numChannels + c) + 2]), 32768>>)

(***************************************************************************)
(* Properties of speech generation (SpecGenerate).                         *)
(***************************************************************************)
\* C13: when the payload handed to decodeAudioData has no byte, the decoding fails and
\* handleGenerateAndPlay ends with audioBuffer = null, a non-null error message and no
\* player mounted; and whenever the handler does set a buffer, the buffer has at least
\* one frame and one sample for every int16 value of the payload.
C13_EmptyPayloadRejected ==
    [][(speech.status = "pending" /\ speech'.status # "pending")
          => /\ (speech'.stage = "decodeAudioData" /\ speech'.audioBytes = <<>>)
                  => /\ speech'.status = "rejected"
                     /\ audioBuffer' = 0
                     /\ error' # Null
                     /\ ~isLoadingAudio'
                     /\ UNCHANGED playerVars
             /\ audioBuffer' # 0
                  => /\ speech'.status = "resolved"
                     /\ speech'.buffer.length >= 1
                     /\ 2 * speech'.buffer.length = Len(speech'.audioBytes)
                     /\ DOMAIN speech'.buffer.channelData[0]
                            = 0..(speech'.buffer.length - 1)]_vars

\* A response whose base64 string decoded to no byte was rejected by decodeAudioData.
C13_Witness ==
    /\ speech.status = "rejected"
    /\ speech.stage = "decodeAudioData"
    /\ speech.audioBytes = <<>>
    /\ error = "NotSupportedError"
    /\ audioBuffer = 0
    /\ ~isLoadingAudio

(***************************************************************************)
(* Properties of audioBufferToMp3 (SpecEncode).                            *)
(***************************************************************************)
Resolved == encoded.status = "resolved"

\* the Int16Array made from channel c of the buffer
Converted(c) == IF c = 0 THEN encoded.left ELSE encoded.right.samples

InUnitRange(sx) == RatLeq(<<-1, 1>>, sx) /\ RatLeq(sx, One)

\* t is the sample sx = n/d times 32768 (sx < 0) or 32767 (otherwise) without its
\* fraction: the integer between 0 and the product that is nearest to the product
TruncatedScaled(sx, t) ==
    IF sx[1] < 0
    THEN /\ t <= 0
         /\ t * sx[2] >= sx[1] * 32768
         /\ (t - 1) * sx[2] < sx[1] * 32768
    ELSE /\ t >= 0
         /\ t * sx[2] <= sx[1] * 32767
         /\ (t + 1) * sx[2] > sx[1] * 32767

\* C14: in both revisions, a sample s of [-1, 1] is converted to s * 32768 (s < 0) or
\* s * 32767 (otherwise) truncated toward zero; the result lies in -32768..32767, -1
\* gives -32768 and 1 gives 32767.
C14_AsymmetricScaling ==
    Resolved =>
        \A c \in 0..(buffer.numberOfChannels - 1) :
            \A i \in 0..(buffer.length - 1) :
                LET sx == buffer.channelData[c][i]
                    v == Converted(c)[i + 1]
                IN  InUnitRange(sx) =>
                        /\ TruncatedScaled(sx, v)
                        /\ v \in -32768..32767
                        /\ RatEq(sx, <<-1, 1>>) => v = -32768
                        /\ RatEq(sx, One) => v = 32767

\* The samples 1, -1/32768, -3/65536, 0, 1/65536, 3/65536, -3/4 converted by the later
\* revision.
C14_Witness ==
    /\ Resolved
    /\ revision = "later"
    /\ buffer.numberOfChannels = 1
    /\ buffer.length = sampleBlockSize
    /\ buffer.channelData[0] = ChannelOf(InRange, sampleBlockSize)
    /\ SubSeq(encoded.left, 1, 7) = <<32767, -1, -1, 0, 0, 1, -24576>>

\* C15 as stated: the mono input [0.5, -0.5, 0.999, -1.0] is converted to
\* [16384, -16384, 32736, -32768].
C15_ScenarioPcmAsStated ==
    (/\ Resolved
     /\ buffer.numberOfChannels = 1
     /\ buffer.length = 4
     /\ buffer.channelData[0] = ChannelOf(Scenario, 4))
        => encoded.left = <<16384, -16384, 32736, -32768>>

\* C15, amended: the mono input [0.5, -0.5, 0.999, -1.0] is converted, in both
\* revisions, to [16383, -16384, 32734, -32768].
C15_ScenarioPcm ==
    (/\ Resolved
     /\ buffer.numberOfChannels = 1
     /\ buffer.length = 4
     /\ buffer.channelData[0] = ChannelOf(Scenario, 4))
        => encoded.left = <<16383, -16384, 32734, -32768>>

C15_Witness ==
    /\ Resolved
    /\ buffer.numberOfChannels = 1
    /\ buffer.channelData[0] = ChannelOf(Scenario, 4)
    /\ Len(encoded.left) = 4
    /\ encoded.left[1] = 16383
    /\ encoded.left[3] = 32734

C32_ConversionsAgree ==
    Resolved =>
        \A c \in 0..(buffer.numberOfChannels - 1) :
            LET ch == buffer.channelData[c]
                earlier == floatTo16BitPCMEarlier(ch)
                later == floatTo16BitPCM(ch)
            IN  \A i \in 0..(buffer.length - 1) :
                    InUnitRange(ch[i]) =>
                        /\ earlier[i + 1] = later[i + 1]
                        /\ Converted(c)[i + 1] = later[i + 1]

\* The samples 1, -1/32768, -3/65536, 0, 1/65536, 3/65536, -3/4 converted by the earlier
\* revision to what the later one stores for them.
C32_Witness ==
    /\ Resolved
    /\ revision = "earlier"
    /\ buffer.numberOfChannels = 1
    /\ buffer.length = sampleBlockSize
    /\ buffer.channelData[0] = ChannelOf(InRange, sampleBlockSize)
    /\ SubSeq(encoded.left, 1, 7) = <<32767, -1, -1, 0, 0, 1, -24576>>
    /\ encoded.left = floatTo16BitPCM(buffer.channelData[0])

\* the encodeBuffer calls of the run
Blocks == {k \in DOMAIN encoded.calls : encoded.calls[k].op = "encodeBuffer"}

\* C17: N samples per channel are submitted in ceil(N / 1152) blocks, the first calls
\* of the run; block k starts at offset 1152 k and carries the converted samples
\* 1152 k .. min(1152 (k + 1), N) - 1, so that every sample is in exactly one block.
C17_BlocksCoverSamples ==
    Resolved =>
        LET N == buffer.length
            B == (N + 1151) \div 1152
            Min(a, b) == IF a < b THEN a ELSE b
        IN  /\ Len(encoded.left) = N
            /\ Blocks = 1..B
            /\ \A k \in 0..(B - 1) :
                 LET call == encoded.calls[k + 1]
                 IN  /\ call.offset = 1152 * k
                     /\ Len(call.left) = Min(1152 * (k + 1), N) - 1152 * k
                     /\ k < B - 1 => Len(call.left) = 1152
                     /\ \A q \in 1..Len(call.left) :
                          call.left[q] = encoded.left[1152 * k + q]
            /\ \A j \in 1..N :
                 Cardinality({k \in Blocks :
                                 /\ encoded.calls[k].offset < j
                                 /\ j <= encoded.calls[k].offset
                                           + Len(encoded.calls[k].left)}) = 1

\* 2305 samples submitted in blocks of 1152, 1152 and 1 samples.
C17_Witness ==
    /\ Resolved
    /\ buffer.length = 2 * sampleBlockSize + 1
    /\ Blocks = {1, 2, 3}
    /\ Len(encoded.calls[2].left) = sampleBlockSize
    /\ encoded.calls[3].offset = 2 * sampleBlockSize
    /\ Len(encoded.calls[3].left) = 1

\* C18: flush is the last call of the run and the only flush; mp3Data holds the
\* non-empty chunks the calls returned, in the order of the calls, and the output is
\* their bytes in that order: each call's bytes are all there and no byte of a call
\* precedes a byte of an earlier call.
C18_ChunksInCallOrder ==
    Resolved =>
        LET n == Len(encoded.calls)
            NonEmpty(call) == Len(call.returned) > 0
            kept == SelectSeq(encoded.calls, NonEmpty)
        IN  /\ n >= 1
            /\ encoded.calls[n].op = "flush"
            /\ \A k \in 1..(n - 1) : encoded.calls[k].op = "encodeBuffer"
            /\ encoded.mp3Data = [j \in 1..Len(kept) |-> kept[j].returned]
            /\ \A j \in 1..Len(encoded.mp3Data) : encoded.mp3Data[j] # <<>>
            /\ \A k \in 1..n :
                 Cardinality({j \in DOMAIN encoded.blob : encoded.blob[j] = k})
                     = Len(encoded.calls[k].returned)
            /\ \A j \in DOMAIN encoded.blob :
                 /\ encoded.blob[j] \in 1..n
                 /\ j > 1 => encoded.blob[j - 1] <= encoded.blob[j]

\* Two blocks, the second of which returned nothing, then a flush that returned bytes.
C18_Witness ==
    /\ Resolved
    /\ Len(encoded.calls) = 3
    /\ encoded.calls[2].op = "encodeBuffer"
    /\ encoded.calls[2].returned = <<>>
    /\ encoded.mp3Data = <<Chunk(1, 2), Chunk(3, 2)>>
    /\ encoded.blob = <<1, 1, 3, 3>>

\* C19: a buffer of no sample is encoded without error (the library being loaded): no
\* block is submitted, flush is called once and the output is the chunk it returned.
C19_EmptyInput ==
    (/\ encoded.status # "none"
     /\ buffer.length = 0
     /\ revision = "later" => lame)
        => /\ Resolved
           /\ Len(encoded.calls) = 1
           /\ encoded.calls[1].op = "flush"
           /\ encoded.blob = encoded.calls[1].returned
           /\ encoded.mp3Data = IF encoded.calls[1].returned = <<>>
                                THEN <<>>
                                ELSE <<encoded.calls[1].returned>>

\* No sample: the output is the two bytes flush returned.
C19_Witness ==
    /\ Resolved
    /\ buffer.length = 0
    /\ Blocks = {}
    /\ encoded.blob = <<1, 1>>

\* the Int16Array a revision makes from a channel
ConvertedBy(rev, input) ==
    IF rev = "later" THEN floatTo16BitPCM(input) ELSE floatTo16BitPCMEarlier(input)

\* C20: every block of a mono buffer is submitted without a right channel or with the
\* left chunk as right channel too; every block of a stereo buffer is submitted with
\* the converted samples of channel 1 at the offset and of the length of its left
\* chunk.
C20_ChannelPairing ==
    Resolved =>
        \A k \in Blocks :
            LET call == encoded.calls[k]
            IN  IF buffer.numberOfChannels = 1
                THEN call.right.null \/ call.right.samples = call.left
                ELSE /\ ~call.right.null
                     /\ Len(call.right.samples) = Len(call.left)
                     /\ \A q \in 1..Len(call.left) :
                          /\ call.left[q] =
                               ConvertedBy(revision, buffer.channelData[0])[call.offset + q]
                          /\ call.right.samples[q] =
                               ConvertedBy(revision, buffer.channelData[1])[call.offset + q]

\* The last block of a stereo buffer of 1153 samples: 0.5 on the left, 2 on the right.
C20_Witness ==
    /\ Resolved
    /\ revision = "later"
    /\ buffer.numberOfChannels = 2
    /\ buffer.channelData[0] = ChannelOf(Scenario, sampleBlockSize + 1)
    /\ buffer.channelData[1] = ChannelOf(OutOfRange, sampleBlockSize + 1)
    /\ encoded.calls[2].offset = sampleBlockSize
    /\ encoded.calls[2].left = <<16383>>
    /\ encoded.calls[2].right = Array(<<-2>>)

(***************************************************************************)
(* Properties of audioBufferToMp3 on malformed buffers (SpecEncodeAny).    *)
(***************************************************************************)
\* the buffer has no channel, or its two channels differ in length
Malformed(buf) ==
    \/ buf.numberOfChannels = 0
    \/ /\ buf.numberOfChannels > 1
       /\ Cardinality(DOMAIN buf.channelData[0]) # Cardinality(DOMAIN buf.channelData[1])

C21_NoChannelRejected ==
    (encoded.status # "none" /\ buffer.numberOfChannels = 0)
        => /\ encoded.status = "rejected"
           /\ encoded.calls = <<>>
           /\ encoded.blob = <<>>

(***************************************************************************)
(* Properties of the App's handlers (SpecApp).                             *)
(***************************************************************************)
\* C22: at most one MP3 encode runs at any time: while isDownloading is set no second
\* handleDownload is in flight, neither during the 50 ms wait nor after the encode,
\* and isDownloading is not cleared while an invocation has still to run its encode
\* or its end.
C22_SingleEncode ==
    /\ Len(downloads) <= 1
    /\ downloads # <<>> => isDownloading

\* The download of a clip still waits for its timer while the App already plays the
\* next clip, whose Download button is disabled.
C22_Witness ==
    /\ downloads # <<>>
    /\ downloads[1].stage = "timer"
    /\ isDownloading
    /\ audioBuffer # 0
    /\ downloads[1].clip # audioBuffer

\* the messages handleDownload shows for a failed encode
DownloadMessages ==
    {"MP3 generation failed. Please try again.",
     "Download failed: lamejs library not loaded properly.",
     "Download failed: IndexSizeError",
     "Download failed: Unknown error"}

\* C23: when the encode fails inside handleDownload, the step that handles the failure
\* leaves the audioBuffer state and the player as they are, sets a download-specific
\* error message, and leaves the Download button of a buffer on the page enabled, no
\* speech request having been made.
C23_FailedDownloadKeepsBuffer ==
    [][(/\ Len(downloads') < Len(downloads)
        /\ \E k \in DOMAIN downloads :
             /\ downloads' = Without(downloads, k)
             /\ downloads[k].outcome.status = "rejected")
          => /\ UNCHANGED playerVars
             /\ error' \in DownloadMessages
             /\ UNCHANGED <<speech, isLoadingAudio>>
             /\ ~isDownloading'
             /\ (audioBuffer' # 0 /\ hasKey') => (Idle' /\ Len(downloads') < MaxDownloads)]_vars

\* The encode of a mounted clip failed, and its Download button is enabled again.
C23_Witness ==
    /\ error = "Download failed: lamejs library not loaded properly."
    /\ audioBuffer # 0
    /\ canvasRef[audioBuffer]
    /\ hasKey
    /\ ~isDownloading
    /\ downloads = <<>>
    /\ speech.status = "resolved"

\* A handler runs to its end and leaves its flag cleared, with a message when the
\* operation it awaited failed.
FlagClearedAtEnd ==
    /\ (speech.status = "pending" /\ speech'.status # "pending")
         => /\ ~isLoadingAudio'
            /\ (speech'.status = "rejected" => error' # Null)
    /\ (poem.status = "pending" /\ poem'.status # "pending")
         => /\ ~isGeneratingText'
            /\ (poem'.status = "rejected" => error' # Null)
    /\ Len(downloads') < Len(downloads)
         => /\ ~isDownloading'
            /\ ((\E k \in DOMAIN downloads :
                   /\ downloads' = Without(downloads, k)
                   /\ downloads[k].outcome.status = "rejected") => error' # Null)

\* A flag is on only while its handler has still to run to its end: the request is
\* pending, or the download waits for its timer or for its continuation.
FlagOnlyInFlight ==
    /\ isLoadingAudio => speech.status = "pending"
    /\ isGeneratingText => poem.status = "pending"
    /\ isDownloading => downloads # <<>>

\* C24: no in-progress indicator stays stuck.  The step in which the awaited operation
\* of handleDownload, handleGenerateAndPlay or handleTextGeneration settles and the
\* handler runs to its end clears the handler's flag, whatever the outcome, and sets
\* a non-null error message when the operation failed; so none of isDownloading,
\* isLoadingAudio and isGeneratingText is on once its handler has ended.
C24_NoStuckIndicator ==
    /\ []FlagOnlyInFlight
    /\ [][FlagClearedAtEnd]_vars

\* A speech request and a poem request have both failed, the later failure's message
\* is shown, and no indicator is on.
C24_Witness ==
    /\ speech.status = "rejected"
    /\ poem.status = "rejected"
    /\ error # Null
    /\ ~isLoadingAudio
    /\ ~isGeneratingText
    /\ ~isDownloading

(***************************************************************************)
(* Properties of a failed speech request (SpecGenerate).                   *)
(***************************************************************************)
\* the request returned a decoded buffer
ReturnedBuffer(r) == r.status = "resolved" /\ r.buffer.status = "ok"

\* C25: when the speech request fails before a decoded buffer is returned (missing API
\* key, rejected, empty or blocked response, base64 or PCM decode failure), the step
\* that handles it leaves audioBuffer null, mounts no AudioPlayer, starts no source
\* and schedules no frame; and while the failed request is the last one, audioBuffer
\* is null and no player is mounted.
C25_FailedSpeechMountsNothing ==
    /\ [](speech.status = "rejected"
            => /\ audioBuffer = 0
               /\ \A i \in Inst : ~canvasRef[i])
    /\ [][(speech.status = "pending" /\ speech'.status # "pending"
               /\ ~ReturnedBuffer(speech'))
             => /\ speech'.status = "rejected"
                /\ audioBuffer' = 0
                /\ nInst' = nInst
                /\ canvasRef' = canvasRef
                /\ sources' = sources
                /\ rafPending' = rafPending
                /\ rafNext' = rafNext
                /\ awaiting' = awaiting
                /\ microtasks' = microtasks]_vars

\* After a first clip was played and dismissed, a second request failed at the base64
\* decoding and mounted nothing.
C25_Witness ==
    /\ speech.status = "rejected"
    /\ speech.stage = "decode"
    /\ nInst = 1
    /\ audioBuffer = 0
    /\ error = "InvalidCharacterError"
    /\ ~isLoadingAudio

(***************************************************************************)
(* Further properties of the AudioPlayer (Spec).                           *)
(***************************************************************************)
\* the frames scheduled by the loops of instance i
FramesOf(pending, i) == {f \in pending : f.inst = i}

\* the emissions of e that invocations of draw sent
Drawn(e) == SelectSeq(e, LAMBDA x : x.by = "draw")

\* C26: while a playback session is active, an invocation of draw delivers exactly one
\* intensity value, to the observer registered at that time, and leaves exactly one
\* frame of its instance pending, the one whose id animationRef holds.
C26_OneFramePending ==
    [][\A k \in DOMAIN Drawn(emitted') :
          LET e == Drawn(emitted')[k]
          IN  sources'[e.sess].state = "playing"
                => /\ Len(Drawn(emitted')) = 1
                   /\ e.obs = onIntensityChangeRef'[e.inst]
                   /\ Cardinality(FramesOf(rafPending', e.inst)) = 1
                   /\ \A f \in FramesOf(rafPending', e.inst) :
                        f.id = animationRef'[e.inst]]_vars

\* C28: the AudioPlayer plays a buffer from the step that mounts it (a source is
\* started, or the call waits for the context to resume), and once the App has set
\* audioBuffer to null no source keeps playing and no analysis frame stays scheduled.
C28_NullBufferSilent ==
    /\ [](audioBuffer = 0 => (Playing = {} /\ rafPending = {}))
    /\ [][(audioBuffer = 0 /\ audioBuffer' # 0)
             => \/ /\ sourceRef'[audioBuffer'] # 0
                   /\ sources'[sourceRef'[audioBuffer']].state = "playing"
                \/ awaiting'[audioBuffer'] # <<>>]_vars

\* C29: the ended event of a source that stopAudio stopped, dispatched after a newer
\* source was started, has no effect on the new session: it cancels no frame, leaves
\* isPlaying as it is and delivers no intensity.
C29_StaleEndedIgnored ==
    [][\A s \in SourceIds :
          (/\ sources[s].state = "stopping"
           /\ sources'[s].state = "stopped"
           /\ \E t \in SourceIds : t > s /\ sources[t].state = "playing")
            => /\ rafPending' = rafPending
               /\ isPlaying' = isPlaying
               /\ emitted' = <<>>]_vars

\* the sources of instance i that were started and neither stopped nor ended
Live(i) == {s \in SourcesOf(i) : sources[s].state = "playing"}

\* C30: in every state a mounted AudioPlayer has isPlaying true exactly when one of its
\* sources was started and neither stopped nor ended, and then one of its
\* analysis frames is pending.
C30_PlayingIffLiveSource ==
    \A i \in Inst :
        canvasRef[i] =>
            /\ isPlaying[i] <=> Live(i) # {}
            /\ isPlaying[i] => \E f \in rafPending : f.inst = i

\* C31: onPlayComplete is invoked exactly once for a session that ran to its natural
\* end, and never for a session that stopAudio terminated.
C31_CompleteOnlyNaturalEnd ==
    \A s \in SourceIds :
        /\ sources[s].state = "ended" => onPlayCompleteCalls[s] = 1
        /\ sources[s].state \in {"stopping", "stopped"} => onPlayCompleteCalls[s] = 0

\* The half of C31 about the natural end: one invocation, made by the ended event, and
\* none while the session plays.
C31_NaturalEndCompletesOnce ==
    \A s \in SourceIds :
        /\ sources[s].state = "ended" => onPlayCompleteCalls[s] = 1
        /\ sources[s].state = "playing" => onPlayCompleteCalls[s] = 0

\* a call of generateRevolutionarySpeech is made
RequestStarted == speechRequests' > speechRequests
\* a call of generateRevolutionarySpeech settles
RequestSettled == speechRequests' < speechRequests

\* C33: at most one speech request is in flight, and isLoadingAudio is true while it is;
\* a request is started only while isLoadingAudio is false and audioBuffer is null, and
\* leaves audioBuffer null and the error cleared; a response arrives only while
\* audioBuffer is null and no other request is in flight.
C33_OneSpeechRequest ==
    /\ [](speechRequests <= 1 /\ (isLoadingAudio <=> speechRequests = 1))
    /\ [][RequestStarted
             => /\ ~isLoadingAudio /\ audioBuffer = 0 /\ speechRequests = 0
                /\ audioBuffer' = 0 /\ error' = Null]_vars
    /\ [][RequestSettled
             => /\ audioBuffer = 0 /\ speechRequests = 1
                /\ isLoadingAudio /\ ~isLoadingAudio']_vars

\* A second request in flight after the first clip was played and dismissed: the
\* buffer is null again and the error cleared.
C33_Witness ==
    /\ speechRequests = 1
    /\ isLoadingAudio
    /\ nInst = 1
    /\ audioBuffer = 0
    /\ error = Null
    /\ speech.status = "pending"

(***************************************************************************)
(* Properties of handleIntensityChange (SpecVisual).                       *)
(***************************************************************************)
\* the styles the handler sets from the intensity alone are at their resting values
StylesAtRest ==
    /\ RatEq(visual.pulseOpacity, Zero)
    /\ RatEq(visual.splatterScale, One)
    /\ RatEq(visual.splatterOpacity, <<3, 10>>)
    /\ visual.containerTransform.kind = "none"

\* C27: after a 0.0 intensity was delivered, every intensity-driven visual state is at
\* its resting value: pulse opacity 0, splatter scale 1 and opacity 0.3, container
\* transform 'none', and the smoothed intensity that positions the blobs equal to 0.
C27_VisualsAtRest ==
    (visual.calls > 0 /\ visual.intensity = Zero)
        => /\ StylesAtRest
           /\ RatEq(visual.smoothedIntensity, Zero)

\* The part of C27 that the code keeps: the styles set from the intensity alone.
C27_StylesAtRest ==
    (visual.calls > 0 /\ visual.intensity = Zero) => StylesAtRest

====
